---- MODULE Spec2Model ----
(***************************************************************************)
(* A model of local_memory.py: the class Cache (a SharedMemoryDict with    *)
(* per-key expiration) over a memory-mapped file.                          *)
(*                                                                         *)
(* The mapping is modelled byte for byte, as a sequence of one-character   *)
(* strings: [0, Size) holds the JSON text of the data dict, [Size, 2*Size) *)
(* the JSON text of the expiration dict, [2*Size, 2*Size+5) the client     *)
(* counter as five decimal characters.  json.dumps, json.loads, '%05d' and *)
(* int() are modelled by what they do to these characters.                 *)
(*                                                                         *)
(* The file system is modelled as a set of files (inodes) and one path:    *)
(* os.remove unlinks the path while the mappings of the handles that are   *)
(* still attached keep the file's bytes alive.                             *)
(***************************************************************************)
EXTENDS Integers, Sequences, FiniteSets, TLC

\* ------------------------------------------------------------------ bounds

\* The `size` argument of the constructor (default 8192): characters per region.
Size == 16
\* Handle objects (processes attaching to the one name) in SpecShared.
MaxHandles == 2
\* Files (inodes) ever created under the one path.
MaxFiles == 2
\* now_seconds() starts here and advances up to MaxClock.
ClockStart == 9
MaxClock == 10
\* close() calls by one handle that reach the counter decrement.
MaxDecs == 2

Keys == {"a", "b"}
KeyOrder == <<"a", "b">>
Values == {1, 10}
\* Python's None, for a missing value, a missing expiration and a missing TTL.
\* Stored values, timestamps and TTLs of the model are all >= 0.
None == -1
TTLs == {None, 0, 1}
\* The narrower inputs of the specifications with several handles.
SharedKeys == {"a"}
SharedValues == {1}
SharedTTLs == {None, 1}

\* ------------------------------------------------------------------- text
\* Helper operators take what they compute with as parameters, so that each
\* intermediate result is computed once.

DigitChars == <<"0", "1", "2", "3", "4", "5", "6", "7", "8", "9">>

IsDigit(c) == \E n \in 1..10 : DigitChars[n] = c

DigitVal(c) == (CHOOSE n \in 1..10 : DigitChars[n] = c) - 1

Min(S) == CHOOSE x \in S : \A y \in S : x <= y

Max(S) == CHOOSE x \in S : \A y \in S : y <= x

MinOr(S, default) == IF S = {} THEN default ELSE Min(S)

MaxOr(S, default) == IF S = {} THEN default ELSE Max(S)

RECURSIVE Repeat(_, _)
Repeat(c, n) == IF n <= 0 THEN <<>> ELSE <<c>> \o Repeat(c, n - 1)

Spaces(n) == Repeat(" ", n)

\* str(n) for n >= 0.
RECURSIVE NatStr(_)
NatStr(n) == IF n < 10 THEN <<DigitChars[n + 1]>>
             ELSE NatStr(n \div 10) \o <<DigitChars[(n % 10) + 1]>>

\* str(n).
IntStr(n) == IF n < 0 THEN <<"-">> \o NatStr(0 - n) ELSE NatStr(n)

ZeroFill(sign, digits) == sign \o Repeat("0", 5 - Len(sign) - Len(digits)) \o digits

\* '%05d' % n: the sign, then zeros, then the digits, at least five characters.
Pad5(n) == IF n < 0 THEN ZeroFill(<<"-">>, NatStr(0 - n)) ELSE ZeroFill(<<>>, NatStr(n))

\* The value of the digits s[i..j].
RECURSIVE DigitsVal(_, _, _)
DigitsVal(s, i, j) == IF j < i THEN 0
                      ELSE DigitsVal(s, i, j - 1) * 10 + DigitVal(s[j])

\* The first position >= i of s that holds no digit (Len(s)+1 when none).
DigitsEnd(s, i) == MinOr({j \in i..Len(s) : ~IsDigit(s[j])}, Len(s) + 1)

\* The first position >= i of s that holds no blank (Len(s)+1 when none).
SkipWs(s, i) == MinOr({j \in i..Len(s) : s[j] # " "}, Len(s) + 1)

\* The last position of s that holds no blank (0 when none).
LastNonBlank(s) == MaxOr({j \in 1..Len(s) : s[j] # " "}, 0)

\* The digits s[d..e] as a number, negated when neg.
ParseDigits(s, d, e, neg) ==
    IF d > e \/ \E j \in d..e : ~IsDigit(s[j])
    THEN [ok |-> FALSE, val |-> 0]
    ELSE [ok |-> TRUE, val |-> IF neg THEN 0 - DigitsVal(s, d, e) ELSE DigitsVal(s, d, e)]

ParseSigned(s, b, e) ==
    IF b <= e /\ s[b] \in {"-", "+"} THEN ParseDigits(s, b + 1, e, s[b] = "-")
    ELSE ParseDigits(s, b, e, FALSE)

\* int(s): blanks around, an optional sign, then digits only.
\* ok = FALSE stands for the ValueError.
ParseInt(s) == ParseSigned(s, SkipWs(s, 1), LastNonBlank(s))

\* ------------------------------------------------------------------- json

EmptyDict == [k \in {} |-> 0]

DictSet(d, k, v) == [x \in DOMAIN d \cup {k} |-> IF x = k THEN v ELSE d[x]]

DictPop(d, k) == [x \in DOMAIN d \ {k} |-> d[x]]

\* The dict without the keys of gone.
DictDrop(d, gone) == [x \in DOMAIN d \ gone |-> d[x]]

\* dict.get(k, default)
DictGet(d, k, default) == IF k \in DOMAIN d THEN d[k] ELSE default

\* '"k": v'
Member(d, k) == <<"\"", k, "\"", ":", " ">> \o IntStr(d[k])

Join(first, rest) == IF rest = <<>> THEN first ELSE first \o <<",", " ">> \o rest

RECURSIVE Members(_, _)
Members(d, order) ==
    IF order = <<>> THEN <<>>
    ELSE IF Head(order) \notin DOMAIN d THEN Members(d, Tail(order))
    ELSE Join(Member(d, Head(order)), Members(d, Tail(order)))

\* json.dumps(d) with the default separators ', ' and ': '.  The keys of the
\* model are single characters and the values integers.
Dumps(d) == <<"{">> \o Members(d, KeyOrder) \o <<"}">>

ParseFail == [ok |-> FALSE, val |-> EmptyDict, next |-> 0]

NumberAt(s, j, e, neg) ==
    [ok |-> TRUE,
     val |-> IF neg THEN 0 - DigitsVal(s, j, e - 1) ELSE DigitsVal(s, j, e - 1),
     next |-> e]

UnsignedAt(s, j, neg) ==
    IF j > Len(s) \/ ~IsDigit(s[j]) THEN [ok |-> FALSE, val |-> 0, next |-> 0]
    ELSE NumberAt(s, j, IF s[j] = "0" THEN j + 1 ELSE DigitsEnd(s, j), neg)

\* A JSON integer starting at s[i]: -?(0|[1-9][0-9]*).
ParseNumber(s, i) ==
    IF i <= Len(s) /\ s[i] = "-" THEN UnsignedAt(s, i + 1, TRUE)
    ELSE UnsignedAt(s, i, FALSE)

\* The text s[i..j].
RECURSIVE Concat(_, _, _)
Concat(s, i, j) == IF j < i THEN "" ELSE Concat(s, i, j - 1) \o s[j]

StringTo(s, i, close) ==
    IF close = 0 THEN [ok |-> FALSE, val |-> "", next |-> 0]
    ELSE [ok |-> TRUE, val |-> Concat(s, i + 1, close - 1), next |-> close + 1]

\* The text between the quote at s[i] and the next quote.
ParseString(s, i) == StringTo(s, i, MinOr({j \in (i + 1)..Len(s) : s[j] = "\""}, 0))

\* The members of an object from s[i] on, which must hold the quote that opens
\* a key; acc holds the members read so far (a repeated key keeps the last).
RECURSIVE ParseMembers(_, _, _)

\* After a member: "}" ends the object, "," leads to the next key.
AfterValue(s, acc, sep) ==
    IF sep > Len(s) THEN ParseFail
    ELSE IF s[sep] = "}" THEN [ok |-> TRUE, val |-> acc, next |-> sep + 1]
    ELSE IF s[sep] = "," THEN ParseMembers(s, SkipWs(s, sep + 1), acc)
    ELSE ParseFail

AfterNumber(s, acc, k, num) ==
    IF ~num.ok THEN ParseFail
    ELSE AfterValue(s, DictSet(acc, k, num.val), SkipWs(s, num.next))

AfterColon(s, acc, k, colon) ==
    IF colon > Len(s) \/ s[colon] # ":" THEN ParseFail
    ELSE AfterNumber(s, acc, k, ParseNumber(s, SkipWs(s, colon + 1)))

AfterKey(s, acc, key) ==
    IF ~key.ok THEN ParseFail
    ELSE AfterColon(s, acc, key.val, SkipWs(s, key.next))

ParseMembers(s, i, acc) ==
    IF i > Len(s) \/ s[i] # "\"" THEN ParseFail
    ELSE AfterKey(s, acc, ParseString(s, i))

\* The object is followed by blanks only.
ObjectEnd(s, obj) ==
    IF obj.ok /\ SkipWs(s, obj.next) = Len(s) + 1
    THEN [ok |-> TRUE, val |-> obj.val]
    ELSE [ok |-> FALSE, val |-> EmptyDict]

ObjectBody(s, first) ==
    IF first <= Len(s) /\ s[first] = "}"
    THEN ObjectEnd(s, [ok |-> TRUE, val |-> EmptyDict, next |-> first + 1])
    ELSE ObjectEnd(s, ParseMembers(s, first, EmptyDict))

ObjectAt(s, open) ==
    IF open > Len(s) \/ s[open] # "{" THEN [ok |-> FALSE, val |-> EmptyDict]
    ELSE ObjectBody(s, SkipWs(s, open + 1))

\* json.loads(s) of a region: blanks, one object, blanks and nothing else.
\* ok = FALSE stands for the ValueError ("No JSON object could be decoded",
\* "Expecting ...", "Extra data").
Loads(s) == ObjectAt(s, SkipWs(s, 1))

\* ------------------------------------------------------------------- mmap

\* mm.seek(pos); mm.read(n): the characters [pos, pos+n) that exist.
MmRead(mm, pos, n) == SubSeq(mm, pos + 1, IF pos + n > Len(mm) THEN Len(mm) ELSE pos + n)

\* mm.seek(pos); mm.write(s): raises ValueError ("data out of range") and
\* writes nothing when s does not fit before the end of the mapping; nothing
\* else limits where the characters land.
MmWrite(mm, pos, s) ==
    IF pos + Len(s) > Len(mm)
    THEN [mm |-> mm, err |-> "ValueError"]
    ELSE [mm |-> SubSeq(mm, 1, pos) \o s \o SubSeq(mm, pos + Len(s) + 1, Len(mm)),
          err |-> ""]

\* "{}%s" % (" " * (size - 2))
Blank == <<"{", "}">> \o Spaces(Size - 2)

\* A flush_file that initialises the data region only, as the layout with one
\* region does, and leaves the expiration region blank.
FlushFileDataOnly == Blank \o Spaces(Size) \o <<"0", "0", "0", "0", "0">>

\* Cache.flush_file: the content of a freshly initialised file,
\* "{}%s{}%s00000" % (" " * (size - 2), " " * (size - 2)).
FlushFile == Blank \o Blank \o <<"0", "0", "0", "0", "0">>

\* _dump_data
DumpData(mm) == MmRead(mm, 0, Size)

\* Cache._expiration_data
ExpirationData(mm) == MmRead(mm, Size, Size)

\* Cache.__getattr__('connected_clients'): ok = FALSE is int()'s ValueError.
ConnectedClients(mm) == ParseInt(MmRead(mm, 2 * Size, 5))

\* SharedMemoryDict.__setattr__('connected_clients', n): the counter of the
\* layout with one region.
SetConnectedClientsBase(mm, n) == MmWrite(mm, Size, Pad5(n))

\* Cache.__setattr__('connected_clients', n)
SetConnectedClients(mm, n) == MmWrite(mm, 2 * Size, Pad5(n))

\* A _flush_data that blanks nothing.
FlushDataSkipped(mm) == [mm |-> mm, err |-> ""]

\* Cache._flush_data: blank the data region, leave the position at 0.
FlushData(mm) == MmWrite(mm, 0, Blank)

\* Cache._flush_expiration: blank the expiration region, position at Size.
FlushExpiration(mm) == MmWrite(mm, Size, Blank)

\* mm.write(s) at pos after the blanking f, unless the blanking raised.
WriteAfter(f, pos, s) == IF f.err # "" THEN f ELSE MmWrite(f.mm, pos, s)

\* SharedMemoryDict.write: blank the data region, then write the JSON text at
\* the position the blanking left (0).
Write(mm, d) == WriteAfter(FlushData(mm), 0, Dumps(d))

\* Cache.write_expiration
WriteExpiration(mm, d) == WriteAfter(FlushExpiration(mm), Size, Dumps(d))

\* Cache.get_expiration_dict
GetExpirationDict(mm) == Loads(ExpirationData(mm))

\* Python truth of an expiration or a TTL: None and 0 are false.
Truthy(x) == x # None /\ x # 0

\* An expiry test that lets a key live through the second it expires in.
IsExpiredStrict(expiration, now) == Truthy(expiration) /\ now > expiration

\* `expiration and now_seconds() >= expiration`
IsExpired(expiration, now) == Truthy(expiration) /\ now >= expiration

\* The keys of data that get_dict's loop removes at time now.
ExpiredKeys(data, exp, now) ==
    {k \in DOMAIN data : IsExpired(DictGet(exp, k, None), now)}

\* get_dict's two writes, the second after the first w1 went through.
WithRet(w, ret) == [mm |-> w.mm, err |-> w.err, ret |-> ret]

WriteBack(w1, d2, e2) ==
    IF w1.err # "" THEN WithRet(w1, EmptyDict)
    ELSE WithRet(WriteExpiration(w1.mm, e2), d2)

\* get_dict once the keys to drop are known.
Evict(mm, data, exp, gone) ==
    IF gone = {} THEN [mm |-> mm, err |-> "", ret |-> data]
    ELSE WriteBack(Write(mm, DictDrop(data, gone)), DictDrop(data, gone),
                   DictDrop(exp, gone))

GetDictLoaded(mm, now, data, exp) ==
    IF ~data.ok \/ ~exp.ok THEN [mm |-> mm, err |-> "ValueError", ret |-> EmptyDict]
    ELSE Evict(mm, data.val, exp.val, ExpiredKeys(data.val, exp.val, now))

\* Cache.get_dict at time now: loads both dicts, drops the expired keys from
\* both and, when any was dropped, writes both back.  ret is the dict returned.
GetDict(mm, now) == GetDictLoaded(mm, now, Loads(DumpData(mm)), GetExpirationDict(mm))

GetFrom(g, key) ==
    [mm |-> g.mm, err |-> g.err,
     ret |-> IF g.err = "" THEN DictGet(g.ret, key, None) ELSE None]

\* SharedMemoryDict.get(key) with the default None.
Get(mm, now, key) == GetFrom(GetDict(mm, now), key)

KeysFrom(g) == [mm |-> g.mm, err |-> g.err, ret |-> IF g.err = "" THEN DOMAIN g.ret ELSE {}]

\* SharedMemoryDict.keys
KeysOf(mm, now) == KeysFrom(GetDict(mm, now))

GetExpirationFrom(mm, e, key) ==
    IF ~e.ok THEN [mm |-> mm, err |-> "ValueError", ret |-> None]
    ELSE [mm |-> mm, err |-> "", ret |-> DictGet(e.val, key, None)]

\* Cache.get_expiration(key)
GetExpiration(mm, key) == GetExpirationFrom(mm, GetExpirationDict(mm), key)

SetExpirationIn(mm, now, key, expiration, e) ==
    IF ~e.ok THEN [mm |-> mm, err |-> "ValueError"]
    ELSE IF ~Truthy(expiration) /\ key \in DOMAIN e.val
    THEN WriteExpiration(mm, DictPop(e.val, key))
    ELSE IF expiration = None THEN [mm |-> mm, err |-> "TypeError"]
    ELSE WriteExpiration(mm, DictSet(e.val, key, now + expiration))

\* Cache.set_expiration(key, expiration) at time now.  A false expiration
\* (None or 0) pops an existing entry; otherwise now + expiration is stored,
\* which is a TypeError for None.
SetExpiration(mm, now, key, expiration) ==
    SetExpirationIn(mm, now, key, expiration, GetExpirationDict(mm))

\* __setitem__ after the data write w: the default expiration, if any.
SetItemExpire(w, now, expire, key) ==
    IF w.err # "" \/ ~Truthy(expire) THEN w
    ELSE SetExpiration(w.mm, now, key, expire)

SetItemIn(g, now, expire, key, value) ==
    IF g.err # "" THEN [mm |-> g.mm, err |-> g.err]
    ELSE SetItemExpire(Write(g.mm, DictSet(g.ret, key, value)), now, expire, key)

\* Cache.__setitem__(key, value) on a handle whose default_expire is expire.
SetItem(mm, now, expire, key, value) ==
    SetItemIn(GetDict(mm, now), now, expire, key, value)

DeleteExpire(w, now, key) ==
    IF w.err # "" THEN w ELSE SetExpiration(w.mm, now, key, None)

DeleteIn(g, now, key) ==
    IF g.err # "" THEN [mm |-> g.mm, err |-> g.err]
    ELSE IF key \notin DOMAIN g.ret THEN [mm |-> g.mm, err |-> "KeyError"]
    ELSE DeleteExpire(Write(g.mm, DictPop(g.ret, key)), now, key)

\* Cache.delete(key)
Delete(mm, now, key) == DeleteIn(GetDict(mm, now), now, key)

\* pop after value = self.get("key") returned g: self.remove(key), which is
\* delete(key), and `return value`.
PopRemove(g, d) ==
    [mm |-> d.mm, err |-> d.err, ret |-> IF d.err = "" THEN g.ret ELSE None]

PopFrom(g, now, key) ==
    IF g.err # "" THEN g ELSE PopRemove(g, Delete(g.mm, now, key))

\* SharedMemoryDict.pop(key): reads the value under the literal "key".
Pop(mm, now, key) == PopFrom(Get(mm, now, "key"), now, key)

\* ------------------------------------------------------------------ state

VARIABLES
    files,   \* files[f]: the bytes of file (inode) f, <<>> when f is not in use
    path,    \* the file the name mmap_<name> leads to, 0 when no such file exists
    hs,      \* hs[h]: the handle object in slot h
    clock,   \* now_seconds()
    pend,    \* pend[h]: where the call that handle h is in the middle of stands
    last     \* the last call made and how it ended

vars == <<files, path, hs, clock, pend, last>>

Handles == 1..MaxHandles
FileIds == 1..MaxFiles

\* A slot without an object.  st is "Open" while self.closed is False (the
\* mapping and the descriptor are open) and "Closed" once close() has run to
\* its end; ino is the file the handle's mapping is attached to; expire is
\* default_expire; decs counts the decrements this object made.
NoHandle == [st |-> "Unopened", ino |-> 0, expire |-> None, decs |-> 0]

\* A handle that is not in the middle of a call.  Otherwise pc names the next
\* line of __setitem__ to run, and key, value and data hold its locals key,
\* value and whole_data.
Idle == [pc |-> "idle", key |-> "", value |-> None, data |-> <<>>]

\* The record of a call: op(key, arg) on handle h at clock value at, the
\* exception it raised ("" for none), what it returned (ret, or keys for a key
\* set) and facts about the state it ran in.
Call(op, h, key, arg, err, ret, keys, flags) ==
    [op |-> op, h |-> h, key |-> key, arg |-> arg, at |-> clock, err |-> err,
     ret |-> ret, keys |-> keys, flags |-> flags, dict |-> EmptyDict]

\* The record of a call that was passed the dict d.
CallWith(call, d) == [call EXCEPT !.dict = d]

\* A file's bytes live while the path leads to it or a mapping is attached.
Attached(h2, f) == h2.st = "Open" /\ h2.ino = f

Reclaim(fs, p, hh) ==
    [f \in FileIds |-> IF f = p \/ \E h \in Handles : Attached(hh[h], f)
                       THEN fs[f] ELSE <<>>]

Step(fs, p, hh, call) ==
    /\ files' = Reclaim(fs, p, hh)
    /\ path' = p
    /\ hs' = hh
    /\ last' = call
    /\ UNCHANGED <<clock, pend>>

Init ==
    /\ files = [f \in FileIds |-> <<>>]
    /\ path = 0
    /\ hs = [h \in Handles |-> NoHandle]
    /\ clock = ClockStart
    /\ pend = [h \in Handles |-> Idle]
    /\ last = Call("none", 0, "", None, "", None, {}, {})

Flag(name, cond) == IF cond THEN {name} ELSE {}

\* The mapping of handle h.
Mm(h) == files[hs[h].ino]

\* files with the mapping of handle h replaced.
WithMm(h, mm) == [files EXCEPT ![hs[h].ino] = mm]

\* The last call stored key successfully and the new data dict fitted.
JustSet(key) ==
    last.op = "set" /\ last.key = key /\ last.err = "" /\ "over" \notin last.flags

\* The last calls stored key with a TTL of 0: a set through a handle whose
\* default_expire is 0, or a set followed by set_expiration(key, 0).
JustSetTtl0(key) ==
    \/ JustSet(key) /\ "expire0" \in last.flags
    \/ /\ last.op = "set_expiration" /\ last.key = key /\ last.arg = 0
       /\ last.err = "" /\ "after_set" \in last.flags

\* The last call stored key: a set, or the set_expiration that followed it.
Stored(key) ==
    \/ JustSet(key)
    \/ /\ last.op = "set_expiration" /\ last.key = key
       /\ last.err = "" /\ "after_set" \in last.flags

\* The TTL the last call stored its key with: default_expire of the handle for
\* a set, the expiration passed for a set_expiration.
StoredTtl ==
    IF last.op = "set" THEN hs[last.h].expire
    ELSE IF last.op = "set_expiration" THEN last.arg
    ELSE None

\* The last call stored key with a positive TTL that has not run out.
Fresh(key) ==
    Stored(key) /\ Truthy(StoredTtl) /\ clock < last.at + StoredTtl

\* ---------------------------------------------------------------- lifecycle

InitFlags(force_flush) ==
    Flag("created", path = 0) \cup Flag("forced", force_flush)
    \cup Flag("after_removal", last.op \in {"close", "del"} /\ "removed" \in last.flags)
    \cup Flag("after_data", last.op \in {"close", "del"} /\ "had_data" \in last.flags)

InitFailed(h, p, expire, fs, flags) ==
    Step(fs, p, hs, Call("init", h, "", expire, "ValueError", None, {}, flags))

InitWritten(h, p, expire, fs, flags, w) ==
    IF w.err # "" THEN InitFailed(h, p, expire, fs, flags)
    ELSE Step([fs EXCEPT ![p] = w.mm], p,
              [hs EXCEPT ![h] = [st |-> "Open", ino |-> p, expire |-> expire, decs |-> 0]],
              Call("init", h, "", expire, "", None, {}, flags))

\* self.connected_clients += 1
InitCounted(h, p, expire, fs, flags, n) ==
    IF ~n.ok THEN InitFailed(h, p, expire, fs, flags)
    ELSE InitWritten(h, p, expire, fs, flags, SetConnectedClients(fs[p], n.val + 1))

\* The constructor for slot h with the path leading (from now on) to file p.
InitInto(h, p, expire, fs, flags) ==
    InitCounted(h, p, expire, fs, flags, ConnectedClients(fs[p]))

InitAt(h, p, expire, force_flush) ==
    InitInto(h, p, expire,
             IF path = 0 \/ force_flush THEN [files EXCEPT ![p] = FlushFile] ELSE files,
             InitFlags(force_flush))

\* Cache.__init__(name, size, file_location, expire, force_flush) into the
\* first free slot of H: flush_file when the path leads nowhere or force_flush
\* is set (a new file in the first case, the same file rewritten in the
\* second), then map the file and add one to connected_clients.  When the
\* counter does not parse the constructor raises, and the finalizer of the
\* half-built object raises at the same read: no object and no change beyond
\* the flush.
CallInit(H, expire, force_flush) ==
    /\ \E h \in H : hs[h].st = "Unopened"
    /\ path # 0 \/ \E f \in FileIds : files[f] = <<>>
    /\ InitAt(Min({x \in H : hs[x].st = "Unopened"}),
              IF path # 0 THEN path ELSE MinOr({f \in FileIds : files[f] = <<>>}, 0),
              expire, force_flush)

\* The object after connected_clients -= 1, and after close() ran to its end.
Decremented(me) == [me EXCEPT !.decs = me.decs + 1]

Finished(me) == [me EXCEPT !.decs = me.decs + 1, !.st = "Closed", !.ino = 0]

NonEmpty(dict) == dict.ok /\ dict.val # EmptyDict

\* Both regions of mm hold entries.
HadData(mm) == NonEmpty(Loads(DumpData(mm))) /\ NonEmpty(Loads(ExpirationData(mm)))

Closing(fs, p, me, err, flags) ==
    [files |-> fs, path |-> p, me |-> me, err |-> err, flags |-> flags]

\* `if self.connected_clients <= 0: os.remove(self.shared_file)` and the rest
\* of close(), with the counter read again as n2 from the mapping mm.
CloseReread(h, mm, n2) ==
    IF ~n2.ok
    THEN Closing(WithMm(h, mm), path, Decremented(hs[h]), "ValueError", {})
    ELSE IF n2.val <= 0 /\ path = 0
    THEN Closing(WithMm(h, mm), path, Decremented(hs[h]), "OSError", {"gone"})
    ELSE IF n2.val <= 0
    THEN Closing(WithMm(h, mm), 0, Finished(hs[h]), "",
                 {"removed"} \cup Flag("had_data", HadData(mm)))
    ELSE Closing(WithMm(h, mm), path, Finished(hs[h]), "", {})

CloseWritten(h, w) ==
    IF w.err # "" THEN Closing(files, path, hs[h], "ValueError", {})
    ELSE CloseReread(h, w.mm, ConnectedClients(w.mm))

\* self.connected_clients -= 1
CloseCounted(h, n) ==
    IF ~n.ok THEN Closing(files, path, hs[h], "ValueError", {})
    ELSE CloseWritten(h, SetConnectedClients(Mm(h), n.val - 1))

\* What close() does to the files, the path and the object in slot h:
\* nothing when self.closed; else connected_clients -= 1, os.remove of the path
\* when the counter reads <= 0 (OSError when the path leads nowhere), then
\* mm.close(), opened_file.close() and closed = True.  An exception leaves the
\* lines after it undone.
Close(h) ==
    IF hs[h].st = "Closed" THEN Closing(files, path, hs[h], "", {"noop"})
    ELSE CloseCounted(h, ConnectedClients(Mm(h)))

CloseStep(op, h, c, slot) ==
    Step(c.files, c.path, [hs EXCEPT ![h] = slot],
         Call(op, h, "", None, c.err, c.me.decs, {}, c.flags))

Kept(c) == c.me

\* close() on the object in slot h (also __exit__).
CallClose(h) ==
    /\ hs[h].st # "Unopened"
    /\ pend[h].pc = "idle"
    /\ hs[h].st = "Open" => hs[h].decs < MaxDecs
    /\ CloseStep("close", h, Close(h), Kept(Close(h)))

\* __del__: the object in slot h is finalized: close(), whose exception the
\* interpreter drops, and the object with its mapping is gone.
CallDel(h) ==
    /\ hs[h].st # "Unopened"
    /\ pend[h].pc = "idle"
    /\ hs[h].st = "Open" => hs[h].decs < MaxDecs
    /\ CloseStep("del", h, Close(h), NoHandle)

\* ---------------------------------------------------------------- data calls

\* A call on a closed handle that returns the default and raises nothing.
OnClosedSilent(op, h, key, arg) ==
    Step(files, path, hs, Call(op, h, key, arg, "", None, {}, {"same"}))

\* A call that uses the mapping of a handle whose mapping is closed raises
\* ValueError at its first mm.seek.
OnClosed(op, h, key, arg) ==
    Step(files, path, hs, Call(op, h, key, arg, "ValueError", None, {}, {"same"}))

\* The data dict g loaded, with key -> value, is longer than the region.
Over(g, key, value) == g.err = "" /\ Len(Dumps(DictSet(g.ret, key, value))) > Size

\* The expiration dict e holds an entry for key whose time has not come.
LiveEntry(e, key) ==
    e.ok /\ key \in DOMAIN e.val /\ ~IsExpired(e.val[key], clock)

\* The expiration dicts e and e2 hold the same entry for key.
SameEntry(e, e2, key) ==
    /\ e.ok /\ key \in DOMAIN e.val
    /\ e2.ok /\ key \in DOMAIN e2.val
    /\ e2.val[key] = e.val[key]

SetItemDone(h, key, value, r, over) ==
    Step(WithMm(h, r.mm), path, hs,
         Call("set", h, key, value, r.err, None, {},
              Flag("same", r.mm = Mm(h)) \cup Flag("over", over)
              \cup Flag("expire0", hs[h].expire = 0)
              \cup Flag("timed", LiveEntry(GetExpirationDict(Mm(h)), key))
              \cup Flag("entry_kept", SameEntry(GetExpirationDict(Mm(h)),
                                                GetExpirationDict(r.mm), key))))

CallSetItem(h, key, value) ==
    /\ hs[h].st # "Unopened"
    /\ pend[h].pc = "idle"
    /\ IF hs[h].st = "Closed" THEN OnClosed("set", h, key, value)
       ELSE SetItemDone(h, key, value, SetItem(Mm(h), clock, hs[h].expire, key, value),
                        Over(GetDict(Mm(h), clock), key, value))

\* Handle w is in the middle of a __setitem__ on the file of handle h that
\* loaded key, which is not the key it sets, and has not written it back yet.
Keeps(w, h, key) ==
    /\ pend[w].pc \in {"set_flush", "set_write"}
    /\ hs[w].ino = hs[h].ino
    /\ key \in DOMAIN pend[w].data
    /\ key # pend[w].key

\* The expiration dict e holds an entry for key that has passed.
ExpiredIn(e, key) == e.ok /\ IsExpired(DictGet(e.val, key, None), clock)

GetDone(h, key, r, expired) ==
    Step(WithMm(h, r.mm), path, hs,
         Call("get", h, key, IF JustSet(key) THEN last.arg ELSE None, r.err, r.ret, {},
              Flag("after_set", JustSet(key)) \cup Flag("after_ttl0", JustSetTtl0(key))
              \cup Flag("later", clock > last.at) \cup Flag("expired", expired)
              \cup Flag("same", r.mm = Mm(h))
              \cup Flag("fresh", Fresh(key))
              \cup Flag("kept", \E w \in Handles : Keeps(w, h, key))))

\* get(key); arg records the value a directly preceding set stored under key.
CallGet(h, key) ==
    /\ hs[h].st # "Unopened"
    /\ pend[h].pc = "idle"
    /\ IF hs[h].st = "Closed" THEN OnClosed("get", h, key, None)
       ELSE GetDone(h, key, Get(Mm(h), clock, key),
                    ExpiredIn(GetExpirationDict(Mm(h)), key))

KeysDone(h, r) ==
    Step(WithMm(h, r.mm), path, hs,
         Call("keys", h, IF Stored(last.key) THEN last.key ELSE "", None, r.err,
              None, r.ret,
              Flag("after_ttl0", JustSetTtl0(last.key)) \cup Flag("later", clock > last.at)
              \cup Flag("fresh", Fresh(last.key))
              \cup Flag("same", r.mm = Mm(h))))

\* keys(); key records the key a directly preceding store was for.
CallKeys(h) ==
    /\ hs[h].st # "Unopened"
    /\ pend[h].pc = "idle"
    /\ IF hs[h].st = "Closed" THEN OnClosed("keys", h, "", None)
       ELSE KeysDone(h, KeysOf(Mm(h), clock))

\* key is in the dict that get_dict returned as g.
Present(g, key) == g.err = "" /\ key \in DOMAIN g.ret

\* The expiration dict e holds an entry for key.
HasExpiration(e, key) == e.ok /\ key \in DOMAIN e.val

DeleteDone(h, key, r, present, had_exp) ==
    Step(WithMm(h, r.mm), path, hs,
         Call("delete", h, key, None, r.err, None, {},
              Flag("present", present) \cup Flag("had_exp", had_exp)
              \cup Flag("same", r.mm = Mm(h))))

CallDelete(h, key) ==
    /\ hs[h].st # "Unopened"
    /\ pend[h].pc = "idle"
    /\ IF hs[h].st = "Closed" THEN OnClosed("delete", h, key, None)
       ELSE DeleteDone(h, key, Delete(Mm(h), clock, key),
                       Present(GetDict(Mm(h), clock), key),
                       HasExpiration(GetExpirationDict(Mm(h)), key))

\* The value under key in the dict that get_dict returned as g.
ValueIn(g, key) == IF g.err = "" THEN DictGet(g.ret, key, None) ELSE None

PopDone(h, key, r, g, e) ==
    Step(WithMm(h, r.mm), path, hs,
         Call("pop", h, key, ValueIn(g, key), r.err, r.ret, {},
              Flag("present", Present(g, key)) \cup Flag("had_exp", HasExpiration(e, key))
              \cup Flag("same", r.mm = Mm(h))))

\* pop(key); arg records the value stored under key before the call.
CallPop(h, key) ==
    /\ hs[h].st # "Unopened"
    /\ pend[h].pc = "idle"
    /\ IF hs[h].st = "Closed" THEN OnClosed("pop", h, key, None)
       ELSE PopDone(h, key, Pop(Mm(h), clock, key), GetDict(Mm(h), clock),
                    GetExpirationDict(Mm(h)))

GetExpirationDone(h, key, r) ==
    Step(files, path, hs, Call("get_expiration", h, key, None, r.err, r.ret, {}, {"same"}))

CallGetExpiration(h, key) ==
    /\ hs[h].st # "Unopened"
    /\ pend[h].pc = "idle"
    /\ IF hs[h].st = "Closed" THEN OnClosed("get_expiration", h, key, None)
       ELSE GetExpirationDone(h, key, GetExpiration(Mm(h), key))

\* The expiration dict e loads and holds no entry for key.
LacksExpiration(e, key) == e.ok /\ key \notin DOMAIN e.val

SetExpirationDone(h, key, expiration, r, e) ==
    Step(WithMm(h, r.mm), path, hs,
         Call("set_expiration", h, key, expiration, r.err, None, {},
              Flag("after_set", JustSet(key)) \cup Flag("had_exp", HasExpiration(e, key))
              \cup Flag("no_exp", LacksExpiration(e, key))
              \cup Flag("same", r.mm = Mm(h))))

CallSetExpiration(h, key, expiration) ==
    /\ hs[h].st # "Unopened"
    /\ pend[h].pc = "idle"
    /\ IF hs[h].st = "Closed" THEN OnClosed("set_expiration", h, key, expiration)
       ELSE SetExpirationDone(h, key, expiration,
                              SetExpiration(Mm(h), clock, key, expiration),
                              GetExpirationDict(Mm(h)))

\* The dicts with keys of Keys and values of V.
Dicts(V) == UNION {[K -> V] : K \in SUBSET Keys}

\* The timestamps an expiration dict holds.
Stamps == {ClockStart, MaxClock + 1}

\* The JSON text of d fits in a region.
Fits(d) == Len(Dumps(d)) <= Size

\* The call before this one was op with a longer dict, and both texts fit.
Shrunk(op, d) ==
    /\ last.op = op /\ last.err = "" /\ "fits" \in last.flags
    /\ Fits(d)
    /\ Len(Dumps(d)) < Len(Dumps(last.dict))

WriteDone(op, h, d, r) ==
    Step(WithMm(h, r.mm), path, hs,
         CallWith(Call(op, h, "", None, r.err, None, {},
                       Flag("fits", Fits(d)) \cup Flag("shrunk", Shrunk(op, d))
                       \cup Flag("same", r.mm = Mm(h))),
                  d))

\* write(dict_data)
CallWrite(h, d) ==
    /\ hs[h].st # "Unopened"
    /\ pend[h].pc = "idle"
    /\ IF hs[h].st = "Closed" THEN OnClosed("write", h, "", None)
       ELSE WriteDone("write", h, d, Write(Mm(h), d))

\* write_expiration(dict_data)
CallWriteExpiration(h, d) ==
    /\ hs[h].st # "Unopened"
    /\ pend[h].pc = "idle"
    /\ IF hs[h].st = "Closed" THEN OnClosed("write_expiration", h, "", None)
       ELSE WriteDone("write_expiration", h, d, WriteExpiration(Mm(h), d))

\* Time passes.
Tick ==
    /\ clock < MaxClock
    /\ clock' = clock + 1
    /\ UNCHANGED <<files, path, hs, pend, last>>

\* The calls the handles of H can make with keys of K, values of V, TTLs of E
\* and force_flush of F.
Calls(H, K, V, E, F) ==
    \/ \E e \in E, force \in F : CallInit(H, e, force)
    \/ \E h \in H : CallClose(h)
    \/ \E h \in H : CallDel(h)
    \/ \E h \in H, k \in K, v \in V : CallSetItem(h, k, v)
    \/ \E h \in H, k \in K : CallGet(h, k)
    \/ \E h \in H : CallKeys(h)
    \/ \E h \in H, k \in K : CallDelete(h, k)
    \/ \E h \in H, k \in K : CallPop(h, k)
    \/ \E h \in H, k \in K : CallGetExpiration(h, k)
    \/ \E h \in H, k \in K, e \in E : CallSetExpiration(h, k, e)
    \/ Tick

\* One process: one handle at a time, every input.
Next == Calls({1}, Keys, Values, TTLs, BOOLEAN)

Spec == Init /\ [][Next]_vars

\* Several processes attached to the one name, with narrower inputs and the
\* calls that store and read a value.
NextShared ==
    \/ \E e \in SharedTTLs, force \in BOOLEAN : CallInit(Handles, e, force)
    \/ \E h \in Handles : CallClose(h)
    \/ \E h \in Handles : CallDel(h)
    \/ \E h \in Handles, k \in SharedKeys, v \in SharedValues : CallSetItem(h, k, v)
    \/ \E h \in Handles, k \in SharedKeys : CallGet(h, k)

SpecShared == Init /\ [][NextShared]_vars

\* ------------------------------------------------------- interleaved calls
\* __setitem__ line by line: other handles run between get_dict, the blanking
\* of write() and its mm.write.

Pending(fs, pd) ==
    /\ files' = fs
    /\ pend' = pd
    /\ UNCHANGED <<path, hs, clock, last>>

Ended(h, fs, call) ==
    /\ files' = fs
    /\ pend' = [pend EXCEPT ![h] = Idle]
    /\ last' = call
    /\ UNCHANGED <<path, hs, clock>>

SetLoaded(h, key, value, g) ==
    IF g.err # ""
    THEN Ended(h, WithMm(h, g.mm), Call("set", h, key, value, g.err, None, {}, {}))
    ELSE Pending(WithMm(h, g.mm),
                 [pend EXCEPT ![h] = [pc |-> "set_flush", key |-> key, value |-> value,
                                      data |-> DictSet(g.ret, key, value)]])

\* whole_data = self.get_dict(); whole_data[key] = value
SetLoad(h, key, value) ==
    /\ hs[h].st = "Open"
    /\ pend[h].pc = "idle"
    /\ SetLoaded(h, key, value, GetDict(Mm(h), clock))

SetFlushed(h, f) ==
    IF f.err # ""
    THEN Ended(h, WithMm(h, f.mm),
               Call("set", h, pend[h].key, pend[h].value, f.err, None, {}, {}))
    ELSE Pending(WithMm(h, f.mm), [pend EXCEPT ![h].pc = "set_write"])

\* write(): self._flush_data()
SetFlush(h) ==
    /\ pend[h].pc = "set_flush"
    /\ SetFlushed(h, FlushData(Mm(h)))

\* The call before h's write was a set by another handle on the same file, of
\* another key, that ended without error after h had loaded its dict.
Overlapped(h) ==
    /\ last.op = "set" /\ last.err = "" /\ last.h # h
    /\ hs[last.h].ino = hs[h].ino
    /\ last.key # pend[h].key
    /\ last.key \notin DOMAIN pend[h].data

SetWritten(h, r) ==
    Ended(h, WithMm(h, r.mm),
          Call("set", h, pend[h].key, pend[h].value, r.err, None, {},
               Flag("over", Len(Dumps(pend[h].data)) > Size)
               \cup Flag("expire0", hs[h].expire = 0)
               \cup Flag("overlapped", Overlapped(h))))

\* A write step that loads the data dict again and adds its key to it.
SetWriteMerging(h) ==
    /\ pend[h].pc = "set_write"
    /\ SetWritten(h, SetItemIn(GetDict(Mm(h), clock), clock, hs[h].expire,
                               pend[h].key, pend[h].value))

\* write(): self.mm.write(json_string), at the position the blanking left,
\* and the set_expiration of Cache.__setitem__.
SetWrite(h) ==
    /\ pend[h].pc = "set_write"
    /\ SetWritten(h, SetItemExpire(MmWrite(Mm(h), 0, Dumps(pend[h].data)), clock,
                                   hs[h].expire, pend[h].key))

\* The two processes of the interleaved calls.
Writers == {1, 2}

\* Two processes whose sets run line by line while the other one reads.
NextInterleaved ==
    \/ \E e \in SharedTTLs : CallInit(Writers, e, FALSE)
    \/ \E h \in Writers, k \in Keys, v \in SharedValues : SetLoad(h, k, v)
    \/ \E h \in Writers : SetFlush(h)
    \/ \E h \in Writers : SetWrite(h)
    \/ \E h \in Writers, k \in Keys : CallGet(h, k)

SpecInterleaved == Init /\ [][NextInterleaved]_vars

\* ------------------------------------------------ interleaved open and close
\* __init__ and close() line by line: the exists-check, flush_file, the mmap,
\* and the read and the write of `connected_clients += 1` and `-= 1` are steps
\* between which other processes run.  pend[h].value holds the counter read.

\* A step in the middle of a call: handle h goes on at pc with n in hand.
Goes(h, pc, n, fs, p, hh) ==
    /\ files' = Reclaim(fs, p, hh)
    /\ path' = p
    /\ hs' = hh
    /\ pend' = [pend EXCEPT ![h] = [pc |-> pc, key |-> "", value |-> n, data |-> <<>>]]
    /\ UNCHANGED <<clock, last>>

\* The step that ends a call of handle h.
Returns(h, fs, p, hh, call) ==
    /\ files' = Reclaim(fs, p, hh)
    /\ path' = p
    /\ hs' = hh
    /\ pend' = [pend EXCEPT ![h] = Idle]
    /\ last' = call
    /\ UNCHANGED clock

\* `if not os.path.exists(shared_file)`
InitCheck(h) ==
    /\ hs[h].st = "Unopened"
    /\ pend[h].pc = "idle"
    /\ Goes(h, IF path = 0 THEN "init_flush" ELSE "init_attach", None, files, path, hs)

InitFlushInto(h, p) ==
    Goes(h, "init_attach", None, [files EXCEPT ![p] = FlushFile], p, hs)

\* flush_file: open(file_name, 'wb') creates the file, or empties the one the
\* path leads to by now, and the initial content is written.
InitFlush(h) ==
    /\ pend[h].pc = "init_flush"
    /\ path # 0 \/ \E f \in FileIds : files[f] = <<>>
    /\ InitFlushInto(h, IF path # 0 THEN path
                        ELSE MinOr({f \in FileIds : files[f] = <<>>}, 0))

\* open(shared_file, 'r+b') and mmap: IOError when the path leads nowhere.
InitAttach(h) ==
    /\ pend[h].pc = "init_attach"
    /\ IF path = 0
       THEN Returns(h, files, path, hs,
                    Call("init", h, "", None, "IOError", None, {}, {"gone"}))
       ELSE Goes(h, "init_read", None, files, path,
                 [hs EXCEPT ![h] = [st |-> "Open", ino |-> path, expire |-> None,
                                    decs |-> 0]])

InitReadDone(h, n) ==
    IF ~n.ok
    THEN Returns(h, files, path, [hs EXCEPT ![h] = NoHandle],
                 Call("init", h, "", None, "ValueError", None, {}, {}))
    ELSE Goes(h, "init_write", n.val, files, path, hs)

\* connected_clients += 1: the read
InitRead(h) ==
    /\ pend[h].pc = "init_read"
    /\ InitReadDone(h, ConnectedClients(Mm(h)))

InitWriteDone(h, w) ==
    IF w.err # ""
    THEN Returns(h, files, path, [hs EXCEPT ![h] = NoHandle],
                 Call("init", h, "", None, "ValueError", None, {}, {}))
    ELSE Returns(h, WithMm(h, w.mm), path, hs,
                 Call("init", h, "", None, "", None, {}, {}))

\* connected_clients += 1: the write, and closed = False
InitWrite(h) ==
    /\ pend[h].pc = "init_write"
    /\ InitWriteDone(h, SetConnectedClients(Mm(h), pend[h].value + 1))

CloseReadDone(h, n) ==
    IF ~n.ok
    THEN Returns(h, files, path, hs,
                 Call("close", h, "", None, "ValueError", hs[h].decs, {}, {}))
    ELSE Goes(h, "close_write", n.val, files, path, hs)

\* `if not self.closed` and connected_clients -= 1: the read
CloseRead(h) ==
    /\ hs[h].st = "Open"
    /\ pend[h].pc = "idle"
    /\ hs[h].decs < MaxDecs
    /\ CloseReadDone(h, ConnectedClients(Mm(h)))

CloseWriteDone(h, w) ==
    IF w.err # ""
    THEN Returns(h, files, path, hs,
                 Call("close", h, "", None, "ValueError", hs[h].decs, {}, {}))
    ELSE Goes(h, "close_check", None, WithMm(h, w.mm), path,
              [hs EXCEPT ![h] = Decremented(hs[h])])

\* connected_clients -= 1: the write
CloseWrite(h) ==
    /\ pend[h].pc = "close_write"
    /\ CloseWriteDone(h, SetConnectedClients(Mm(h), pend[h].value - 1))

Shut(me) == [me EXCEPT !.st = "Closed", !.ino = 0]

CloseCheckDone(h, n2) ==
    IF ~n2.ok
    THEN Returns(h, files, path, hs,
                 Call("close", h, "", None, "ValueError", hs[h].decs, {}, {}))
    ELSE IF n2.val <= 0 /\ path = 0
    THEN Returns(h, files, path, hs,
                 Call("close", h, "", None, "OSError", hs[h].decs, {}, {"gone"}))
    ELSE IF n2.val <= 0
    THEN Returns(h, files, 0, [hs EXCEPT ![h] = Shut(hs[h])],
                 Call("close", h, "", None, "", hs[h].decs, {}, {"removed"}))
    ELSE Returns(h, files, path, [hs EXCEPT ![h] = Shut(hs[h])],
                 Call("close", h, "", None, "", hs[h].decs, {}, {}))

\* `if self.connected_clients <= 0: os.remove(...)`, mm.close(), closed = True
CloseCheck(h) ==
    /\ pend[h].pc = "close_check"
    /\ CloseCheckDone(h, ConnectedClients(Mm(h)))

NextRace ==
    \/ \E h \in Handles : InitCheck(h)
    \/ \E h \in Handles : InitFlush(h)
    \/ \E h \in Handles : InitAttach(h)
    \/ \E h \in Handles : InitRead(h)
    \/ \E h \in Handles : InitWrite(h)
    \/ \E h \in Handles : CloseRead(h)
    \/ \E h \in Handles : CloseWrite(h)
    \/ \E h \in Handles : CloseCheck(h)

SpecRace == Init /\ [][NextRace]_vars

\* Opens without force_flush and closes only.
NextOpenClose ==
    \/ \E e \in TTLs : CallInit(Handles, e, FALSE)
    \/ \E h \in Handles : CallClose(h)
    \/ \E h \in Handles : CallDel(h)

SpecOpenClose == Init /\ [][NextOpenClose]_vars

\* One process that writes whole dicts into the two regions.
NextWrite ==
    \/ CallInit({1}, None, FALSE)
    \/ \E d \in Dicts(Values) : CallWrite(1, d)
    \/ \E d \in Dicts(Stamps) : CallWriteExpiration(1, d)

SpecWrite == Init /\ [][NextWrite]_vars

\* ------------------------------------------------------------------ claims

OpenHandles == {h \in Handles : hs[h].st = "Open"}

\* The region holds the JSON text of an empty dict.
IsEmptyRegion(region) == Loads(region) = [ok |-> TRUE, val |-> EmptyDict]

\* C1: a get(k) that directly follows a successful cache[k] = v whose data
\* dict fitted in the region, made before k's expiration time, returns v.
RoundTrip ==
    (last.op = "get" /\ "after_set" \in last.flags /\ "expired" \notin last.flags)
        => (last.err = "" /\ last.ret = last.arg)

\* C2: once k is stored with a TTL of 0 (a set through a handle whose default
\* TTL is 0, or a set followed by set_expiration(k, 0)), a get(k) at a later
\* clock value returns the default and keys() at a later clock value has no k.
ZeroTtlExpires ==
    /\ (last.op = "get" /\ "after_ttl0" \in last.flags /\ "later" \in last.flags)
          => (last.err = "" /\ last.ret = None)
    /\ (last.op = "keys" /\ "after_ttl0" \in last.flags /\ "later" \in last.flags)
          => (last.err = "" /\ last.key \notin last.keys)

\* C3: over opens without force_flush and closes, the file exists exactly when
\* some handle is open, every open handle is attached to it and its counter
\* holds the number of open handles.
CountMatchesHandles ==
    IF path = 0 THEN OpenHandles = {}
    ELSE /\ OpenHandles # {}
         /\ \A h \in OpenHandles : hs[h].ino = path
         /\ ConnectedClients(files[path]) = [ok |-> TRUE, val |-> Cardinality(OpenHandles)]

\* Two opens and one close: the file is there with a count of 1.
TwoOpensOneClose ==
    /\ last.op = "close" /\ last.err = ""
    /\ \A h \in 1..2 : hs[h].st # "Unopened"
    /\ Cardinality(OpenHandles) = 1
    /\ path # 0
    /\ ConnectedClients(files[path]).val = 1

\* C4: every counter stored in a file that is in use is >= 0.
CountNonNegative ==
    \A f \in FileIds :
        (files[f] # <<>> /\ ConnectedClients(files[f]).ok)
            => ConnectedClients(files[f]).val >= 0

\* C5: a set whose new data dict is longer than the region raises and leaves
\* the mapping as it was.
OverflowRejected ==
    (last.op = "set" /\ "over" \in last.flags)
        => (last.err # "" /\ "same" \in last.flags)

\* C6: a get(k) that returns while another handle is in the middle of a set
\* that keeps k (it loaded k and sets another key) does not return the default.
ReaderSeesKeptKey ==
    (last.op = "get" /\ "kept" \in last.flags /\ last.err = "") => last.ret # None

\* C7: delete(k) of a key that is in the data dict raises nothing and leaves k
\* in neither dict.
DeleteClears ==
    (last.op = "delete" /\ "present" \in last.flags)
        => /\ last.err = ""
           /\ ~Present(GetDict(Mm(last.h), clock), last.key)
           /\ GetExpiration(Mm(last.h), last.key).ret = None

\* C8: no handle object decrements the counter more than once.
CloseDecrementsOnce ==
    /\ \A h \in Handles : hs[h].decs <= 1
    /\ last.op \in {"close", "del"} => last.ret <= 1

\* C9: a close() that reads a counter <= 0 while the path leads nowhere raises
\* nothing and leaves the handle closed.
CloseToleratesMissingFile ==
    (last.op = "close" /\ "gone" \in last.flags)
        => (last.err = "" /\ hs[last.h].st = "Closed")

\* C10: the open that follows the close that removed the file succeeds and
\* finds both dicts empty and a counter of 1.
FreshAfterRemoval ==
    (last.op = "init" /\ "after_removal" \in last.flags)
        => /\ last.err = ""
           /\ path # 0
           /\ hs[last.h].ino = path
           /\ IsEmptyRegion(DumpData(files[path]))
           /\ IsEmptyRegion(ExpirationData(files[path]))
           /\ ConnectedClients(files[path]) = [ok |-> TRUE, val |-> 1]

\* An open right after the close that removed a file with entries in both dicts.
ReopenedAfterData ==
    /\ last.op = "init" /\ last.err = ""
    /\ "after_removal" \in last.flags
    /\ "after_data" \in last.flags

\* C11: a get(k) that follows the store of k with a positive TTL t at clock
\* value c, at a clock value below c + t, returns the stored value, and keys()
\* at such a clock value contains k.
NonExpiry ==
    /\ (last.op = "get" /\ "fresh" \in last.flags)
          => /\ last.err = ""
             /\ last.ret # None
             /\ "after_set" \in last.flags => last.ret = last.arg
    /\ (last.op = "keys" /\ "fresh" \in last.flags)
          => (last.err = "" /\ last.key \in last.keys)

\* The region holds exactly the JSON text of d followed by blanks.
HoldsOnly(region, d) ==
    /\ region = Dumps(d) \o Spaces(Size - Len(Dumps(d)))
    /\ Loads(region) = [ok |-> TRUE, val |-> d]

\* C12: a write of a dict that fits, made right after the write of a longer
\* dict that fitted, leaves a region that holds the text of the shorter dict
\* followed by blanks only and decodes to that dict; so does write_expiration
\* for the expiration region.
BlankingCorrect ==
    /\ (last.op = "write" /\ "shrunk" \in last.flags)
          => (last.err = "" /\ HoldsOnly(DumpData(Mm(last.h)), last.dict))
    /\ (last.op = "write_expiration" /\ "shrunk" \in last.flags)
          => (last.err = "" /\ HoldsOnly(ExpirationData(Mm(last.h)), last.dict))

\* A shorter dict written over a longer one in the data region.
ShorterWritten ==
    /\ last.op = "write" /\ "shrunk" \in last.flags
    /\ last.dict # EmptyDict

\* C13: set_expiration(k, None) on a key without an expiration entry raises
\* nothing and leaves the mapping as it was.
SetExpirationNoneIdempotent ==
    (last.op = "set_expiration" /\ last.arg = None /\ "no_exp" \in last.flags)
        => (last.err = "" /\ "same" \in last.flags)

DataOps == {"get", "set", "delete", "keys", "get_expiration", "set_expiration"}

\* C14: a get, set, delete, keys, get_expiration or set_expiration on a handle
\* that is Closed raises and changes no file and not the path, and a Closed
\* handle never becomes Open.
ClosedHandleFails ==
    [][/\ \A h \in Handles : hs[h].st = "Closed" => hs'[h].st # "Open"
       /\ (last' # last /\ last'.op \in DataOps /\ hs[last'.h].st = "Closed")
             => (last'.err # "" /\ files' = files /\ path' = path /\ hs' = hs)]_vars

\* A set was called on a Closed handle.
SetOnClosed ==
    /\ last.op = "set" /\ last.h # 0
    /\ hs[last.h].st = "Closed"
    /\ last.err = "ValueError"

\* C15: a pop(k) of a key that is in the data dict, when it returns, returns
\* the value that was stored under k and leaves k out of the data dict.
PopReturnsValue ==
    (last.op = "pop" /\ "present" \in last.flags /\ last.err = "")
        => /\ last.ret = last.arg
           /\ ~Present(GetDict(Mm(last.h), clock), last.key)

\* The dict a region holds has an entry for key.
HasKey(dict, key) == dict.ok /\ key \in DOMAIN dict.val

\* mm holds key in the data dict with an expiration entry that is <= now.
ExpiredPresent(mm, key, now) ==
    /\ HasKey(Loads(DumpData(mm)), key)
    /\ HasKey(GetExpirationDict(mm), key)
    /\ GetExpirationDict(mm).val[key] <= now

\* mm holds key in neither dict.
Evicted(mm, key) ==
    /\ Loads(DumpData(mm)).ok /\ ~HasKey(Loads(DumpData(mm)), key)
    /\ GetExpirationDict(mm).ok /\ ~HasKey(GetExpirationDict(mm), key)

\* C16: a get(k) or keys() called while the mapping holds k with an expiration
\* entry <= the clock raises nothing, returns the default (keys() has no k),
\* and leaves k in neither stored dict.
LazyEviction ==
    [][\A k \in Keys :
        (/\ clock' = clock
         /\ \/ last'.op = "get" /\ last'.key = k
            \/ last'.op = "keys"
         /\ hs[last'.h].st = "Open"
         /\ ExpiredPresent(files[hs[last'.h].ino], k, clock))
        => /\ last'.err = ""
           /\ last'.op = "get" => last'.ret = None
           /\ last'.op = "keys" => k \notin last'.keys
           /\ Evicted(files'[hs[last'.h].ino], k)]_vars

\* A get of a key whose time had come rewrote the mapping.
EvictedByGet ==
    /\ last.op = "get" /\ last.err = ""
    /\ "expired" \in last.flags
    /\ "same" \notin last.flags
    /\ last.ret = None
    /\ Evicted(Mm(last.h), last.key)

\* text is what the region starts with.
StartsWith(region, text) ==
    Len(text) <= Len(region) /\ SubSeq(region, 1, Len(text)) = text

\* C17: the write step that ends a set without error stores the text of the
\* dict its handle loaded earlier plus its own key, whatever other handles
\* stored since; so with two handles that set different keys there is a state
\* where both sets ended without error and one key is lost.
WriteStoresLoadedDict ==
    [][\A h \in Handles :
        (/\ pend[h].pc = "set_write" /\ pend'[h].pc = "idle"
         /\ last'.err = "" /\ "over" \notin last'.flags)
        => StartsWith(DumpData(files'[hs[h].ino]), Dumps(pend[h].data))]_vars

\* Two sets of different keys by two handles both ended without error, and the
\* data dict holds the key of the second one only.
LostUpdate ==
    /\ last.op = "set" /\ last.err = ""
    /\ "overlapped" \in last.flags
    /\ HasKey(Loads(DumpData(Mm(last.h))), last.key)
    /\ \E k \in Keys \ {last.key} : ~HasKey(Loads(DumpData(Mm(last.h))), k)
    /\ \A h \in Writers : hs[h].st = "Open" /\ pend[h].pc = "idle"

\* C18: a set through a handle without a default TTL, of a key that has an
\* expiration entry whose time has not come, raises nothing and leaves that
\* entry as it was.
UntimedSetKeepsEntry ==
    (last.op = "set" /\ last.h # 0 /\ ~Truthy(hs[last.h].expire)
     /\ "timed" \in last.flags)
        => (last.err = "" /\ "entry_kept" \in last.flags)

\* The handles whose constructor has returned and that are not in a close().
FullyOpen == {h \in Handles : hs[h].st = "Open" /\ pend[h].pc = "idle"}

\* C19: while some handle is open the path leads to the file that handle is
\* attached to, and the stored count is at least the number of open handles.
FileKeptWhileOpen ==
    FullyOpen # {}
        => /\ path # 0
           /\ \A h \in FullyOpen : hs[h].ino = path
           /\ ConnectedClients(files[path]).ok
           /\ ConnectedClients(files[path]).val >= Cardinality(FullyOpen)

\* The keys of the dict a region holds.
KeysIn(dict) == IF dict.ok THEN DOMAIN dict.val ELSE {}

\* C20: in the mapping of the open handle of the single process, when both
\* regions load, every key of the expiration dict is a key of the data dict.
NoOrphanExpirations ==
    \A h \in OpenHandles :
        (Loads(DumpData(Mm(h))).ok /\ GetExpirationDict(Mm(h)).ok)
            => KeysIn(GetExpirationDict(Mm(h))) \subseteq KeysIn(Loads(DumpData(Mm(h))))

====
